---- MODULE Spec2Model ----
(***************************************************************************)
(* State-machine model of greatcircledist.c: the argument validation loop  *)
(* of main, the haversine / local-radius estimate, and the iteration of    *)
(* vincenty().                                                             *)
(*                                                                         *)
(* Numbers.  A C double is modelled as a binary floating-point number with *)
(* a significand of Precision bits, round-to-nearest-even, the special     *)
(* values NaN, +Inf and -Inf with their IEEE-754 arithmetic, and an        *)
(* exponent that never overflows (no computation of the program on         *)
(* validated input comes near the exponent range of a double).  Zero is    *)
(* unsigned.  The functions of <math.h> are computed in the same           *)
(* arithmetic by argument reduction and series.                            *)
(*                                                                         *)
(* The result of strtod, and a.coor[i] until it is multiplied by DEG2RAD,  *)
(* is held as an exact decimal of 13 fractional digits (a double carries   *)
(* 15 to 17 significant digits, and the tokens of the model have at most   *)
(* 13 fractional digits), so that the comparisons of the validation loop   *)
(* are decided exactly, EPSILON = 1e-12 included.                          *)
(***************************************************************************)
EXTENDS Integers, Sequences, FiniteSets

\* Significand width of the modelled double, in bits.
Precision == 10

\* Saturation value of the iteration counter of vincenty's do-while loop.
IterCap == 20

----------------------------------------------------------------------------
(* Binary floating point                                                   *)

NaN == [k |-> "nan", s |-> 0, m |-> 0, e |-> 0]
Inf(sg) == [k |-> "inf", s |-> sg, m |-> 0, e |-> 0]
Zero == [k |-> "fin", s |-> 0, m |-> 0, e |-> 0]
\* A double that has not been assigned yet.
Unset == [k |-> "unset", s |-> 0, m |-> 0, e |-> 0]

IsNaN(x) == x.k = "nan"
IsInf(x) == x.k = "inf"
IsFinite(x) == x.k = "fin"
IsZero(x) == x.k = "fin" /\ x.m = 0

----------------------------------------------------------------------------
(* Every floating-point operation below is applied through the operator    *)
(* Apply, defined once all of them are: Apply(op, a) is operation op of    *)
(* the arguments a.  The definition XDef is the body of operation X.       *)

RECURSIVE Apply(_, _)

BitLen(n) == Apply("BitLen", <<n>>)
RndDown(sg, M, e, sticky, sh) == Apply("RndDown", <<sg, M, e, sticky, sh>>)
Rnd(sg, M, e, sticky) == Apply("Rnd", <<sg, M, e, sticky>>)
FromInt(n) == Apply("FromInt", <<n>>)
AddOrdered(x, y) == Apply("AddOrdered", <<x, y>>)
Add(x, y) == Apply("Add", <<x, y>>)
Sub(x, y) == Apply("Sub", <<x, y>>)
Mul(x, y) == Apply("Mul", <<x, y>>)
Div(x, y) == Apply("Div", <<x, y>>)
ISqrtIn(n, x) == Apply("ISqrtIn", <<n, x>>)
ISqrt(n) == Apply("ISqrt", <<n>>)
SqrtShift(m, e, k) == Apply("SqrtShift", <<m, e, k>>)
Sqrt(x) == Apply("Sqrt", <<x>>)
Ratio(n, d) == Apply("Ratio", <<n, d>>)
TrigStep(x2, k, first, acc) == Apply("TrigStep", <<x2, k, first, acc>>)
TrigTail(x2, first) == Apply("TrigTail", <<x2, first>>)
KSin(x) == Apply("KSin", <<x>>)
KCos(x) == Apply("KCos", <<x>>)
ReduceIn(r, n) == Apply("ReduceIn", <<r, n>>)
Reduce(x) == Apply("Reduce", <<x>>)
Sin(x) == Apply("Sin", <<x>>)
Cos(x) == Apply("Cos", <<x>>)
Tan(x) == Apply("Tan", <<x>>)
AtanStep(x2, k, acc) == Apply("AtanStep", <<x2, k, acc>>)
AtanTail(x2) == Apply("AtanTail", <<x2>>)
KAtan(x) == Apply("KAtan", <<x>>)
AtanPos(x) == Apply("AtanPos", <<x>>)
Atan(x) == Apply("Atan", <<x>>)
Atan2(y, x) == Apply("Atan2", <<y, x>>)
Asin(x) == Apply("Asin", <<x>>)
equal(a, b) == Apply("equal", <<a, b>>)
HaversineOf(s, c, slat, slon, c1, c2) == Apply("HaversineOf", <<s, c, slat, slon, c1, c2>>)
Haversine(a) == Apply("Haversine", <<a>>)
SamePoint(a) == Apply("SamePoint", <<a>>)
ReducedLat(lat) == Apply("ReducedLat", <<lat>>)
VincentyPass(sU1, cU1, sU2, cU2, sl, cl, L, l) == Apply("VincentyPass", <<sU1, cU1, sU2, cU2, sl, cl, L, l>>)
VincentyBody(U1, U2, L, l) == Apply("VincentyBody", <<U1, U2, L, l>>)
VincentyResult(v) == Apply("VincentyResult", <<v>>)
vincenty(a) == Apply("vincenty", <<a>>)
SpanEnd(tok, p, set) == Apply("SpanEnd", <<tok, p, set>>)
NatOf(tok, p, q, base, acc) == Apply("NatOf", <<tok, p, q, base, acc>>)
DecimalValue(sg, ds, pt) == Apply("DecimalValue", <<sg, ds, pt>>)
StrtodDecimal(tok, sg, p) == Apply("StrtodDecimal", <<tok, sg, p>>)
strtod(tok) == Apply("strtod", <<tok>>)
ToDouble(x) == Apply("ToDouble", <<x>>)

\* number of bits of n, for 0 <= n < 2^31
BitLenDef(n) ==
    LET b16 == IF n >= 65536 THEN 16 ELSE 0
        n16 == n \div 2^b16
        b8 == IF n16 >= 256 THEN 8 ELSE 0
        n8 == n16 \div 2^b8
        b4 == IF n8 >= 16 THEN 4 ELSE 0
        n4 == n8 \div 2^b4
        b2 == IF n4 >= 4 THEN 2 ELSE 0
        n2 == n4 \div 2^b2
    IN b16 + b8 + b4 + b2 + (IF n2 >= 2 THEN 2 ELSE n2)

\* sg * M * 2^e rounded to Precision bits, ties to even; sticky tells that
\* the exact value lies strictly above M * 2^e in magnitude.
RndDownDef(sg, M, e, sticky, sh) ==
    LET q == M \div 2^sh
        r == M % 2^sh
        half == 2^(sh - 1)
        q1 == IF r > half \/ (r = half /\ (sticky \/ q % 2 = 1)) THEN q + 1 ELSE q
    IN IF q1 = 2^Precision
       THEN [k |-> "fin", s |-> sg, m |-> 2^(Precision - 1), e |-> e + sh + 1]
       ELSE [k |-> "fin", s |-> sg, m |-> q1, e |-> e + sh]

RndDef(sg, M, e, sticky) ==
    CASE M = 0 -> [k |-> "fin", s |-> 0, m |-> 0, e |-> 0]
      [] M # 0 /\ BitLen(M) <= Precision ->
            [k |-> "fin", s |-> sg, m |-> M * 2^(Precision - BitLen(M)),
             e |-> e - (Precision - BitLen(M))]
      [] OTHER -> RndDown(sg, M, e, sticky, BitLen(M) - Precision)

Abs(n) == IF n < 0 THEN -n ELSE n
Sgn(n) == IF n < 0 THEN -1 ELSE IF n > 0 THEN 1 ELSE 0

FromIntDef(n) == Rnd(Sgn(n), Abs(n), 0, FALSE)

Neg(x) == [x EXCEPT !.s = -x.s]

Fabs(x) == [x EXCEPT !.s = IF x.k = "nan" THEN 0 ELSE Abs(x.s)]

\* x + y for finite non-zero x, y with x.e >= y.e
AddOrderedDef(x, y) ==
    IF x.e - y.e > Precision + 2 THEN x
    ELSE Rnd(Sgn(x.s * x.m * 2^(x.e - y.e) + y.s * y.m),
             Abs(x.s * x.m * 2^(x.e - y.e) + y.s * y.m), y.e, FALSE)

AddDef(x, y) ==
    CASE IsNaN(x) \/ IsNaN(y) -> NaN
      [] IsInf(x) /\ IsInf(y) -> IF x.s # y.s THEN NaN ELSE x
      [] IsInf(x) /\ IsFinite(y) -> x
      [] IsFinite(x) /\ IsInf(y) -> y
      [] IsFinite(x) /\ IsFinite(y) /\ x.m = 0 -> y
      [] IsFinite(x) /\ IsFinite(y) /\ x.m # 0 /\ y.m = 0 -> x
      [] OTHER -> IF x.e >= y.e THEN AddOrdered(x, y) ELSE AddOrdered(y, x)

SubDef(x, y) == Add(x, [y EXCEPT !.s = -y.s])

MulDef(x, y) ==
    CASE IsNaN(x) \/ IsNaN(y) -> NaN
      [] (IsInf(x) /\ IsZero(y)) \/ (IsZero(x) /\ IsInf(y)) -> NaN
      [] (IsInf(x) /\ ~IsNaN(y) /\ ~IsZero(y)) \/
         (IsInf(y) /\ IsFinite(x) /\ ~IsZero(x)) -> Inf(x.s * y.s)
      [] IsFinite(x) /\ IsFinite(y) /\ (x.m = 0 \/ y.m = 0) -> Zero
      [] OTHER -> Rnd(x.s * y.s, x.m * y.m, x.e + y.e, FALSE)

\* IEEE division: 0/0 and Inf/Inf are NaN, x/0 is an infinity.
DivDef(x, y) ==
    CASE IsNaN(x) \/ IsNaN(y) -> NaN
      [] IsInf(x) /\ IsInf(y) -> NaN
      [] IsInf(x) /\ IsFinite(y) -> Inf(x.s * (IF y.s = 0 THEN 1 ELSE y.s))
      [] IsFinite(x) /\ IsInf(y) -> Zero
      [] IsFinite(x) /\ IsFinite(y) /\ y.m = 0 -> IF x.m = 0 THEN NaN ELSE Inf(x.s)
      [] IsFinite(x) /\ IsFinite(y) /\ y.m # 0 /\ x.m = 0 -> Zero
      [] OTHER -> Rnd(x.s * y.s, (x.m * 2^(Precision + 1)) \div y.m,
                      x.e - y.e - (Precision + 1),
                      (x.m * 2^(Precision + 1)) % y.m # 0)

\* floor of the square root of n >= 1 by Newton's iteration downwards from
\* x >= sqrt(n)
ISqrtInDef(n, x) ==
    IF (x + n \div x) \div 2 >= x THEN x ELSE ISqrtIn(n, (x + n \div x) \div 2)

ISqrtDef(n) == ISqrtIn(n, 2^((BitLen(n) + 1) \div 2))

\* the square root of m * 2^e, m > 0, with k chosen so that e - k is even
SqrtShiftDef(m, e, k) ==
    Rnd(1, ISqrt(m * 2^k), (e - k) \div 2, ISqrt(m * 2^k) * ISqrt(m * 2^k) # m * 2^k)

\* correctly rounded square root; sqrt of a negative number is NaN
SqrtDef(x) ==
    CASE IsNaN(x) -> NaN
      [] IsInf(x) -> IF x.s > 0 THEN x ELSE NaN
      [] IsFinite(x) /\ x.m = 0 -> x
      [] IsFinite(x) /\ x.m # 0 /\ x.s < 0 -> NaN
      [] OTHER -> SqrtShift(x.m, x.e,
                            IF (x.e - (Precision + 2)) % 2 = 0
                            THEN Precision + 2 ELSE Precision + 3)

\* x < y and x <= y as C compares doubles: false when either is NaN
Lt(x, y) ==
    IF IsNaN(x) \/ IsNaN(y) THEN FALSE
    ELSE LET d == Sub(x, y) IN (~IsNaN(d)) /\ d.s < 0

Le(x, y) ==
    IF IsNaN(x) \/ IsNaN(y) THEN FALSE ELSE x = y \/ Lt(x, y)

One == FromInt(1)
Two == FromInt(2)
RatioDef(n, d) == Div(FromInt(n), FromInt(d))

----------------------------------------------------------------------------
(* <math.h>                                                                *)

\* floor(pi * 2^28): M_PI to 30 significant bits
PiBits == 843314857

Pi == Rnd(1, PiBits, -28, TRUE)
PiO2 == Rnd(1, PiBits, -29, TRUE)
PiO4 == Rnd(1, PiBits, -30, TRUE)

\* pi/2 - PiO2, the part of pi/2 below the significand (the second word of
\* pi/2 that libm's argument reduction subtracts)
PiO2Lo ==
    LET d == PiBits - PiO2.m * 2^(PiO2.e + 29)
    IN Rnd(Sgn(d), Abs(d), -29, TRUE)

\* One step of the alternating series of sin (first = 1) and cos
\* (first = 0) in Horner form: x2 * (1 - acc) / ((2k-1+first)(2k+first))
TrigStepDef(x2, k, first, acc) ==
    Div(Mul(x2, Sub(One, acc)), FromInt((2 * k - 1 + first) * (2 * k + first)))

\* The steps for k = 6..1 from 0, the innermost term first
TrigTailDef(x2, first) ==
    LET a6 == TrigStep(x2, 6, first, Zero)
        a5 == TrigStep(x2, 5, first, a6)
        a4 == TrigStep(x2, 4, first, a5)
        a3 == TrigStep(x2, 3, first, a4)
        a2 == TrigStep(x2, 2, first, a3)
        a1 == TrigStep(x2, 1, first, a2)
    IN <<a6, a5, a4, a3, a2, a1>>[6]

KSinDef(x) == Mul(x, Sub(One, TrigTail(Mul(x, x), 1)))
KCosDef(x) == Sub(One, TrigTail(Mul(x, x), 0))

\* |x| = n * pi/2 + r with |r| <= pi/4 (about): <<n, r>> before the low
\* word of pi/2 is subtracted
ReduceInDef(r, n) ==
    IF Lt(PiO4, r) /\ n < 8 THEN ReduceIn(Sub(r, PiO2), n + 1) ELSE <<n, r>>

ReduceDef(x) ==
    LET nr == ReduceIn(Fabs(x), 0)
    IN <<nr[1] % 4, Sub(nr[2], Mul(FromInt(nr[1]), PiO2Lo))>>

SinDef(x) ==
    IF ~IsFinite(x) THEN NaN
    ELSE IF x.m = 0 THEN x
    ELSE LET nr == Reduce(x)
             v == CASE nr[1] = 0 -> KSin(nr[2])
                    [] nr[1] = 1 -> KCos(nr[2])
                    [] nr[1] = 2 -> Neg(KSin(nr[2]))
                    [] OTHER -> Neg(KCos(nr[2]))
         IN IF x.s > 0 THEN v ELSE Neg(v)

CosDef(x) ==
    IF ~IsFinite(x) THEN NaN
    ELSE LET nr == Reduce(x)
         IN CASE nr[1] = 0 -> KCos(nr[2])
              [] nr[1] = 1 -> Neg(KSin(nr[2]))
              [] nr[1] = 2 -> Neg(KCos(nr[2]))
              [] OTHER -> KSin(nr[2])

TanDef(x) == Div(Sin(x), Cos(x))

\* One step of the arctangent series in Horner form:
\* x2 * (1/(2k+1) - acc)
AtanStepDef(x2, k, acc) == Mul(x2, Sub(Ratio(1, 2 * k + 1), acc))

\* The steps for k = 10..1 from 0, the innermost term first
AtanTailDef(x2) ==
    LET a10 == AtanStep(x2, 10, Zero)
        a9 == AtanStep(x2, 9, a10)
        a8 == AtanStep(x2, 8, a9)
        a7 == AtanStep(x2, 7, a8)
        a6 == AtanStep(x2, 6, a7)
        a5 == AtanStep(x2, 5, a6)
        a4 == AtanStep(x2, 4, a5)
        a3 == AtanStep(x2, 3, a4)
        a2 == AtanStep(x2, 2, a3)
        a1 == AtanStep(x2, 1, a2)
    IN <<a10, a9, a8, a7, a6, a5, a4, a3, a2, a1>>[10]

KAtanDef(x) == Mul(x, Sub(One, AtanTail(Mul(x, x))))

\* atan of a finite x > 0
AtanPosDef(x) ==
    IF Lt(One, x) THEN Sub(PiO2, AtanPos(Div(One, x)))
    ELSE IF Lt(Ratio(27, 64), x) THEN Add(PiO4, KAtan(Div(Sub(x, One), Add(x, One))))
    ELSE KAtan(x)

AtanDef(x) ==
    IF IsNaN(x) THEN NaN
    ELSE IF IsInf(x) THEN (IF x.s > 0 THEN PiO2 ELSE Neg(PiO2))
    ELSE IF x.m = 0 THEN x
    ELSE IF x.s > 0 THEN AtanPos(x) ELSE Neg(AtanPos(Neg(x)))

\* atan2(y, x); the program passes finite arguments or NaN only
Atan2Def(y, x) ==
    IF IsNaN(x) \/ IsNaN(y) THEN NaN
    ELSE IF IsZero(y) THEN (IF IsZero(x) \/ x.s > 0 THEN Zero ELSE Pi)
    ELSE IF IsZero(x) THEN (IF y.s > 0 THEN PiO2 ELSE Neg(PiO2))
    ELSE LET a == Atan(Div(y, x))
         IN IF x.s > 0 THEN a
            ELSE IF y.s > 0 THEN Add(a, Pi) ELSE Sub(a, Pi)

\* asin(x) = atan2(x, sqrt((1-x)(1+x))); NaN outside [-1, 1]
AsinDef(x) ==
    IF ~IsFinite(x) THEN NaN
    ELSE IF Lt(One, Fabs(x)) THEN NaN
    ELSE IF x.m = 0 THEN x
    ELSE Atan2(x, Sqrt(Mul(Sub(One, x), Add(One, x))))

----------------------------------------------------------------------------
(* Constants of greatcircledist.c                                         *)

ERR_NUMARG == 1
ERR_INVALID == 2
ERR_RANGE == 3
ERR_LAT90 == 4
ERR_LON180 == 5

DEG2RAD == Div(Pi, FromInt(180))
\* 1e-12
EPSILON == Div(Ratio(1, 1000000), FromInt(1000000))

RA == FromInt(6378137)
\* 298.257223563 (to the 9 significant digits a 31-bit integer holds)
FINV == Ratio(298257224, 1000000)

F == Div(One, FINV)
F1 == Sub(One, F)
F16 == Div(F, FromInt(16))
RB == Mul(RA, F1)
A2 == Mul(RA, RA)
B2 == Mul(RB, RB)
RF == Div(Sub(A2, B2), B2)

\* fabs(a - b) <= EPSILON
equalDef(a, b) == Le(Fabs(Sub(a, b)), EPSILON)

----------------------------------------------------------------------------
(* The two algorithms; a is <<lat1, lon1, lat2, lon2>> in radians          *)

\* main, lines 143-154: the estimate from s = sin(avglat), c = cos(avglat),
\* slat, slon and the cosines c1, c2 of the two latitudes, with the divisor
\* rs + rc of the radius kept beside the result.
HaversineOfDef(s, c, slat, slon, c1, c2) ==
    LET rs == Mul(Mul(B2, s), s)
        rc == Mul(Mul(A2, c), c)
        central == Asin(Sqrt(Add(Mul(slat, slat),
                                 Mul(Mul(Mul(c1, c2), slon), slon))))
    IN [divisor |-> Add(rs, rc),
        dist |-> Mul(Mul(Two, Sqrt(Div(Add(Mul(B2, rs), Mul(A2, rc)),
                                       Add(rs, rc)))),
                     central)]

\* The haversine estimate with cos(lat1) taken twice in place of
\* cos(lat1) * cos(lat2).
HaversineOneLatitude(a) ==
    HaversineOf(Sin(Div(Add(a[1], a[3]), Two)), Cos(Div(Add(a[1], a[3]), Two)),
                Sin(Div(Sub(a[3], a[1]), Two)), Sin(Div(Sub(a[4], a[2]), Two)),
                Cos(a[1]), Cos(a[1]))

\* main, lines 140-154: the local-radius / haversine estimate;
\* avglat = (lat1 + lat2) / 2
HaversineDef(a) ==
    HaversineOf(Sin(Div(Add(a[1], a[3]), Two)), Cos(Div(Add(a[1], a[3]), Two)),
                Sin(Div(Sub(a[3], a[1]), Two)), Sin(Div(Sub(a[4], a[2]), Two)),
                Cos(a[1]), Cos(a[3]))

\* The fast-path test comparing each point's latitude with its own
\* longitude.
SamePointCrossed(a) == equal(a[1], a[2]) /\ equal(a[3], a[4])

\* vincenty, line 61: the fast path
SamePointDef(a) == equal(a[1], a[3]) /\ equal(a[2], a[4])

\* vincenty, lines 64-66
ReducedLatDef(lat) == Atan(Mul(F1, Tan(lat)))

\* vincenty, lines 73-84: the pass from the sines and cosines of U1, U2
\* and lambda = l
VincentyPassDef(sU1, cU1, sU2, cU2, sl, cl, L, l) ==
    LET sU12 == Mul(sU1, sU2)
        cU12 == Mul(cU1, cU2)
        p == Mul(cU2, sl)
        q == Sub(Mul(cU1, sU2), Mul(Mul(sU1, cU2), cl))
        ss == Sqrt(Add(Mul(p, p), Mul(q, q)))
        cs == Add(sU12, Mul(cU12, cl))
        s == Atan2(ss, cs)
        sa == Div(Mul(cU12, sl), ss)
        c2a == Sub(One, Mul(sa, sa))
        c2sm == Sub(Cos(s), Div(Mul(Two, sU12), c2a))
        C == Mul(Mul(F16, c2a),
                 Add(FromInt(4), Mul(F, Sub(FromInt(4), Mul(FromInt(3), c2a)))))
        in3 == Add(FromInt(-1), Mul(Mul(Two, c2sm), c2sm))
        in2 == Add(c2sm, Mul(Mul(C, cs), in3))
        in1 == Add(s, Mul(Mul(C, ss), in2))
    IN [ss |-> ss, cs |-> cs, s |-> s, c2a |-> c2a, c2sm |-> c2sm,
        l0 |-> l,
        l |-> Add(L, Mul(Mul(Mul(Sub(One, C), F), sa), in1))]

\* vincenty, lines 69-84: one pass of the do-while body from lambda = l
VincentyBodyDef(U1, U2, L, l) ==
    VincentyPass(Sin(U1), Cos(U1), Sin(U2), Cos(U2), Sin(l), Cos(l), L, l)

\* vincenty, lines 86-95: the distance from the quantities of one pass
VincentyResultDef(v) ==
    LET u2 == Mul(v.c2a, RF)
        t == Sqrt(Add(One, u2))
        k1 == Div(Sub(t, One), Add(t, One))
        k24 == Mul(Mul(Ratio(1, 4), k1), k1)
        A == Div(Add(One, k24), Sub(One, k1))
        B == Mul(k1, Sub(One, Mul(Ratio(3, 2), k24)))
        c2sm2 == Mul(Mul(Two, v.c2sm), v.c2sm)
        t1 == Mul(v.cs, Add(FromInt(-1), c2sm2))
        t2 == Mul(Mul(Mul(Div(B, FromInt(6)), v.c2sm),
                      Add(FromInt(-3), Mul(Mul(FromInt(4), v.ss), v.ss))),
                  Add(FromInt(-3), Mul(Mul(FromInt(4), v.c2sm), v.c2sm)))
        ds == Mul(Mul(B, v.ss), Add(v.c2sm, Mul(Div(B, FromInt(4)), Sub(t1, t2))))
    IN Mul(Mul(RB, A), Sub(v.s, ds))

\* vincenty, lines 68-95 as a function: the value returned when the loop is
\* left within n passes from lambda = l, Unset when it is not.
RECURSIVE VincentyIterate(_, _, _, _, _)
VincentyIterate(U1, U2, L, l, n) ==
    LET v == VincentyBody(U1, U2, L, l)
    IN IF equal(v.l, v.l0) THEN VincentyResult(v)
       ELSE IF n <= 1 THEN Unset
       ELSE VincentyIterate(U1, U2, L, v.l, n - 1)

\* vincenty, lines 59-96 as a function of the coordinate pair, with at most
\* IterCap passes of the loop.
vincentyDef(a) ==
    IF SamePoint(a) THEN Zero
    ELSE VincentyIterate(ReducedLat(a[1]), ReducedLat(a[3]),
                         Sub(a[4], a[2]), Sub(a[4], a[2]), IterCap)

----------------------------------------------------------------------------
(* Argument strings and strtod                                             *)
(*                                                                         *)
(* An argument is a sequence of one-character strings.  strtod is modelled *)
(* by what the C library does in the "C" locale on the alphabet of the     *)
(* model (digits, a-f, n, i, t, y, x, sign, point, blank): skip leading    *)
(* white space, take an optional sign, then the longest prefix that is     *)
(* "infinity", "inf", "nan", a hexadecimal integer 0x..., or a decimal     *)
(* number with optional fraction and exponent.  With no such prefix no     *)
(* conversion is done: the value is 0 and the end pointer is the start of  *)
(* the string.                                                             *)

Digits == <<"0", "1", "2", "3", "4", "5", "6", "7", "8", "9">>
HexDigits == Digits \o <<"a", "b", "c", "d", "e", "f">>
DigitSet == {Digits[n] : n \in 1..Len(Digits)}
HexSet == {HexDigits[n] : n \in 1..Len(HexDigits)}
ValueOf(c) == (CHOOSE n \in 1..Len(HexDigits) : HexDigits[n] = c) - 1

\* A degree value: the exact decimal s * (hi * 1e-4 + lo * 1e-13) with
\* lo < 1e9, or an infinity, or NaN.
DecNaN == [k |-> "nan", s |-> 0, hi |-> 0, lo |-> 0]
DecInf(sg) == [k |-> "inf", s |-> sg, hi |-> 0, lo |-> 0]
Dec(sg, hi, lo) ==
    [k |-> "fin", s |-> IF hi = 0 /\ lo = 0 THEN 0 ELSE sg, hi |-> hi, lo |-> lo]
DecOfInt(n) == Dec(Sgn(n), Abs(n) * 10000, 0)

\* The first position from p on whose character is not in set.
SpanEndDef(tok, p, set) ==
    LET stops == {j \in p..Len(tok) : tok[j] \notin set}
    IN IF stops # {} THEN CHOOSE j \in stops : \A k \in stops : j <= k
       ELSE IF p > Len(tok) THEN p ELSE Len(tok) + 1

StartsWith(tok, p, word) ==
    /\ p + Len(word) - 1 <= Len(tok)
    /\ SubSeq(tok, p, p + Len(word) - 1) = word

\* The number written by tok[p .. q-1] in the given base, saturating at
\* 99999.
NatOfDef(tok, p, q, base, acc) ==
    IF p >= q THEN acc
    ELSE NatOf(tok, p + 1, q, base,
               IF acc * base + ValueOf(tok[p]) > 99999 THEN 99999
               ELSE acc * base + ValueOf(tok[p]))

\* Digit k of the digit string ds, 0 outside it.
DigitAt(ds, k) == IF k >= 1 /\ k <= Len(ds) THEN ValueOf(ds[k]) ELSE 0

\* The value of the digit string ds with the decimal point after its first
\* pt digits (pt may be negative or exceed the length).  lead is the place
\* of the first non-zero digit, so the number is d.ddd * 10^(pt - lead).
\* Above the decimal exponent range of a double the result is HUGE_VAL,
\* below it the result underflows; both are range errors.  A finite value
\* of 1e5 or more is held as 99999 (it is far outside every range tested).
DecimalValueDef(sg, ds, pt) ==
    LET lead == SpanEnd(ds, 1, {"0"})
        whole == NatOf(ds \o <<"0", "0", "0", "0", "0">>, lead, pt + 1, 10, 0)
        f(j) == DigitAt(ds, pt + j)
    IN CASE lead > Len(ds) -> [val |-> Dec(sg, 0, 0), range |-> FALSE]
         [] lead <= Len(ds) /\ pt - lead > 308 ->
               [val |-> DecInf(sg), range |-> TRUE]
         [] lead <= Len(ds) /\ pt - lead < -307 ->
               [val |-> Dec(sg, 0, 0), range |-> TRUE]
         [] lead <= Len(ds) /\ pt - lead \in 5..308 ->
               [val |-> Dec(sg, 99999 * 10000, 0), range |-> FALSE]
         [] OTHER ->
               [val |-> Dec(sg,
                            whole * 10000 + f(1) * 1000 + f(2) * 100
                                + f(3) * 10 + f(4),
                            f(5) * 100000000 + f(6) * 10000000
                                + f(7) * 1000000 + f(8) * 100000
                                + f(9) * 10000 + f(10) * 1000
                                + f(11) * 100 + f(12) * 10 + f(13)),
                range |-> FALSE]

\* The decimal form: digits [. digits] [e [sign] digits], starting at p.
\* An "e" not followed by an exponent is not part of the number.
StrtodDecimalDef(tok, sg, p) ==
    LET j1 == SpanEnd(tok, p, DigitSet)
        hasDot == j1 <= Len(tok) /\ tok[j1] = "."
        j2 == IF hasDot THEN SpanEnd(tok, j1 + 1, DigitSet) ELSE j1
        ds == SubSeq(tok, p, j1 - 1) \o SubSeq(tok, j1 + 1, j2 - 1)
        hasE == j2 <= Len(tok) /\ tok[j2] = "e"
        eNeg == hasE /\ j2 + 1 <= Len(tok) /\ tok[j2 + 1] = "-"
        e1 == IF hasE /\ j2 + 1 <= Len(tok) /\ tok[j2 + 1] \in {"+", "-"}
              THEN j2 + 2 ELSE j2 + 1
        e2 == IF hasE THEN SpanEnd(tok, e1, DigitSet) ELSE e1
        hasExp == hasE /\ e2 > e1
        ex == IF hasExp
              THEN (IF eNeg THEN -1 ELSE 1) * NatOf(tok, e1, e2, 10, 0)
              ELSE 0
        r == DecimalValue(sg, ds, (j1 - p) + ex)
    IN IF Len(ds) = 0
       THEN [val |-> Dec(1, 0, 0), len |-> 0, range |-> FALSE]
       ELSE [val |-> r.val, len |-> (IF hasExp THEN e2 ELSE j2) - 1,
             range |-> r.range]

\* strtod(argv[j], &end): the value, end - argv[j], and whether the call
\* sets errno to ERANGE.
strtodDef(tok) ==
    LET p0 == SpanEnd(tok, 1, {" "})
        sg == IF p0 <= Len(tok) /\ tok[p0] = "-" THEN -1 ELSE 1
        p == IF p0 <= Len(tok) /\ tok[p0] \in {"+", "-"} THEN p0 + 1 ELSE p0
        h == SpanEnd(tok, p + 2, HexSet)
    IN CASE StartsWith(tok, p, <<"i", "n", "f", "i", "n", "i", "t", "y">>) ->
               [val |-> DecInf(sg), len |-> p + 7, range |-> FALSE]
         [] StartsWith(tok, p, <<"i", "n", "f">>)
            /\ ~StartsWith(tok, p, <<"i", "n", "f", "i", "n", "i", "t", "y">>) ->
               [val |-> DecInf(sg), len |-> p + 2, range |-> FALSE]
         [] StartsWith(tok, p, <<"n", "a", "n">>) ->
               [val |-> DecNaN, len |-> p + 2, range |-> FALSE]
         [] StartsWith(tok, p, <<"0", "x">>) /\ h > p + 2 ->
               [val |-> Dec(sg, NatOf(tok, p + 2, h, 16, 0) * 10000, 0),
                len |-> h - 1, range |-> FALSE]
         [] OTHER -> StrtodDecimal(tok, sg, p)

\* strlen(argv[j])
strlen(tok) == Len(tok)

\* x < n and x > n for a degree value x and an integer n; false on NaN.
LessThan(x, n) ==
    CASE x.k = "nan" -> FALSE
      [] x.k = "inf" -> x.s < 0
      [] OTHER -> \/ x.s * x.hi < n * 10000
                  \/ x.s * x.hi = n * 10000 /\ x.s * x.lo < 0
GreaterThan(x, n) ==
    CASE x.k = "nan" -> FALSE
      [] x.k = "inf" -> x.s > 0
      [] OTHER -> \/ x.s * x.hi > n * 10000
                  \/ x.s * x.hi = n * 10000 /\ x.s * x.lo > 0

\* EPSILON in units of 1e-13, the last decimal place of a degree value.
EPSILON13 == 10

\* equal(x, n) of the source on a degree value: fabs(x - n) <= EPSILON.
equalDeg(x, n) ==
    /\ x.k = "fin"
    /\ Abs(x.s * x.hi - n * 10000) <= 1
    /\ Abs((x.s * x.hi - n * 10000) * 1000000000 + x.s * x.lo) <= EPSILON13

\* The double nearest a degree value.
ToDoubleDef(x) ==
    CASE x.k = "nan" -> NaN
      [] x.k = "inf" -> Inf(x.s)
      [] OTHER ->
           LET mag == Add(Div(FromInt(x.hi), FromInt(10000)),
                          Div(FromInt(x.lo),
                              Mul(FromInt(1000000), FromInt(10000000))))
           IN IF x.s < 0 THEN Neg(mag) ELSE mag

\* Operation op applied to the arguments a.  The arguments are evaluated
\* before the operation is entered, as C evaluates the arguments of a call.
Apply(op, a) ==
    CASE Len(a) = 0 -> Unset
      [] op = "Rnd" -> RndDef(a[1], a[2], a[3], a[4])
      [] op = "BitLen" -> BitLenDef(a[1])
      [] op = "Mul" -> MulDef(a[1], a[2])
      [] op = "Add" -> AddDef(a[1], a[2])
      [] op = "AddOrdered" -> AddOrderedDef(a[1], a[2])
      [] op = "Sub" -> SubDef(a[1], a[2])
      [] op = "RndDown" -> RndDownDef(a[1], a[2], a[3], a[4], a[5])
      [] op = "Div" -> DivDef(a[1], a[2])
      [] op = "FromInt" -> FromIntDef(a[1])
      [] op = "TrigStep" -> TrigStepDef(a[1], a[2], a[3], a[4])
      [] op = "AtanStep" -> AtanStepDef(a[1], a[2], a[3])
      [] op = "ISqrtIn" -> ISqrtInDef(a[1], a[2])
      [] op = "ISqrt" -> ISqrtDef(a[1])
      [] op = "SqrtShift" -> SqrtShiftDef(a[1], a[2], a[3])
      [] op = "Sqrt" -> SqrtDef(a[1])
      [] op = "Ratio" -> RatioDef(a[1], a[2])
      [] op = "TrigTail" -> TrigTailDef(a[1], a[2])
      [] op = "KSin" -> KSinDef(a[1])
      [] op = "KCos" -> KCosDef(a[1])
      [] op = "ReduceIn" -> ReduceInDef(a[1], a[2])
      [] op = "Reduce" -> ReduceDef(a[1])
      [] op = "Sin" -> SinDef(a[1])
      [] op = "Cos" -> CosDef(a[1])
      [] op = "Tan" -> TanDef(a[1])
      [] op = "AtanTail" -> AtanTailDef(a[1])
      [] op = "KAtan" -> KAtanDef(a[1])
      [] op = "AtanPos" -> AtanPosDef(a[1])
      [] op = "Atan" -> AtanDef(a[1])
      [] op = "Atan2" -> Atan2Def(a[1], a[2])
      [] op = "Asin" -> AsinDef(a[1])
      [] op = "equal" -> equalDef(a[1], a[2])
      [] op = "HaversineOf" -> HaversineOfDef(a[1], a[2], a[3], a[4], a[5], a[6])
      [] op = "Haversine" -> HaversineDef(a[1])
      [] op = "SamePoint" -> SamePointDef(a[1])
      [] op = "ReducedLat" -> ReducedLatDef(a[1])
      [] op = "VincentyPass" -> VincentyPassDef(a[1], a[2], a[3], a[4], a[5], a[6], a[7], a[8])
      [] op = "VincentyBody" -> VincentyBodyDef(a[1], a[2], a[3], a[4])
      [] op = "VincentyResult" -> VincentyResultDef(a[1])
      [] op = "vincenty" -> vincentyDef(a[1])
      [] op = "SpanEnd" -> SpanEndDef(a[1], a[2], a[3])
      [] op = "NatOf" -> NatOfDef(a[1], a[2], a[3], a[4], a[5])
      [] op = "DecimalValue" -> DecimalValueDef(a[1], a[2], a[3])
      [] op = "StrtodDecimal" -> StrtodDecimalDef(a[1], a[2], a[3])
      [] op = "strtod" -> strtodDef(a[1])
      [] op = "ToDouble" -> ToDoubleDef(a[1])

----------------------------------------------------------------------------
(* printf("%.2f") and printf("%.3f")                                       *)

\* The decimals of a finite x >= 0 with e < 0: the fraction of x times
\* 10^places rounded to the nearest integer, ties to even (10^places when
\* the fraction rounds up to one).  A value below 2^-30 prints as zero.
Decimals(x, places) ==
    LET d == 2^(-x.e)
        n == (x.m % d) * 10^places
        q == n \div d
        r == n % d
    IN IF x.e < -30 THEN 0
       ELSE IF 2 * r > d \/ (2 * r = d /\ q % 2 = 1) THEN q + 1 ELSE q

IntPart(x) ==
    CASE x.e >= 0 -> x.m * 2^x.e
      [] x.e < -30 -> 0
      [] OTHER -> x.m \div 2^(-x.e)

\* The line printf writes for a double with the given number of decimals:
\* sign, integer part and the decimals as a number, or "nan" / "inf".
Printf(x, places) ==
    CASE IsNaN(x) -> [text |-> "nan", neg |-> FALSE, int |-> 0, frac |-> 0,
                      places |-> places]
      [] IsInf(x) -> [text |-> "inf", neg |-> x.s < 0, int |-> 0, frac |-> 0,
                      places |-> places]
      [] IsFinite(x) /\ x.e >= 0 ->
            [text |-> "num", neg |-> x.s < 0, int |-> IntPart(x), frac |-> 0,
             places |-> places]
      [] OTHER ->
            [text |-> "num", neg |-> x.s < 0,
             int |-> IntPart(x) + Decimals(x, places) \div 10^places,
             frac |-> Decimals(x, places) % 10^places,
             places |-> places]

----------------------------------------------------------------------------
(* main: the checks on one argument                                        *)

\* ERANGE of <errno.h>
ERANGE == 34

\* The checks with the range error tested before the end pointer.
ArgCheckRangeFirst(r, len, en, idx) ==
    CASE en = ERANGE -> ERR_RANGE
      [] en # ERANGE /\ r.len # len -> ERR_INVALID
      [] en # ERANGE /\ r.len = len /\ idx \in {0, 2}
         /\ (LessThan(r.val, -90) \/ GreaterThan(r.val, 90)) -> ERR_LAT90
      [] en # ERANGE /\ r.len = len /\ idx \in {1, 3}
         /\ (LessThan(r.val, -180) \/ GreaterThan(r.val, 180)) -> ERR_LON180
      [] OTHER -> 0

\* main, lines 112-133: the exit code of the first check that argument
\* number idx (0..3) fails, 0 when it passes all of them.  r is the result
\* of strtod, len is strlen of the argument, en is errno after the call.
ArgCheck(r, len, en, idx) ==
    CASE r.len # len -> ERR_INVALID
      [] r.len = len /\ en = ERANGE -> ERR_RANGE
      [] r.len = len /\ en # ERANGE /\ idx \in {0, 2}
         /\ (LessThan(r.val, -90) \/ GreaterThan(r.val, 90)) -> ERR_LAT90
      [] r.len = len /\ en # ERANGE /\ idx \in {1, 3}
         /\ (LessThan(r.val, -180) \/ GreaterThan(r.val, 180)) -> ERR_LON180
      [] OTHER -> 0

\* The normalisation with == in place of equal().
NormaliseExact(x, idx) ==
    IF idx \in {1, 3} /\ x = DecOfInt(-180) THEN DecOfInt(180) ELSE x

\* main, lines 127-133: the value a.coor[idx] holds after the range checks
\* passed: a longitude that equal() finds at -180 becomes 180.
Normalise(x, idx) ==
    IF idx \in {1, 3} /\ equalDeg(x, -180) THEN DecOfInt(180) ELSE x

\* main, line 135
ToRadians(x) == Mul(ToDouble(x), DEG2RAD)

\* The text fprintf writes before the argument, by exit code.
Diagnostic(code) ==
    CASE code = ERR_NUMARG -> "Provide 4 arguments: lat1 lon1 lat2 lon2."
      [] code = ERR_INVALID -> "Not a number: "
      [] code = ERR_RANGE -> "Out of range: "
      [] code = ERR_LAT90 -> "Latitude must be between -90 and +90: "
      [] code = ERR_LON180 -> "Longitude must be between -180 and +180: "

\* The exit test with a tolerance of 1e-2.
ConvergedCoarse(lnew, lold) == Le(Fabs(Sub(lnew, lold)), Ratio(1, 100))

\* vincenty, line 85: the loop is left when this holds of the new and the
\* previous lambda.
Converged(lnew, lold) == equal(lnew, lold)

----------------------------------------------------------------------------
(* Argument vectors                                                        *)

\* Arguments that are valid both as latitude and as longitude, or valid
\* longitudes on the boundary.
CoreTokens ==
    { <<"0">>, <<"3", "0">>, <<"1", "8", "0">>, <<"-", "1", "8", "0">> }

\* Boundary latitudes, a longitude within EPSILON of -180, one more
\* latitude, values out of range, strings that are no decimal number, and a
\* number no double holds.
OddTokens ==
    { <<"9", "0">>, <<"-", "9", "0">>,
      <<"-", "1", "7", "9", ".", "9", "9", "9", "9", "9", "9", "9", "9", "9",
        "9", "9", "9", "5">>,
      <<"4", "5">>, <<"1", "8", "1">>, <<"a", "b", "c">>,
      <<"1", "e", "4", "0", "0">>, <<"1", "e", "4", "0", "0", "x">>,
      <<"n", "a", "n">>, <<"i", "n", "f">>, <<"0", "x", "b", "5">>, <<>> }

Tokens == CoreTokens \cup OddTokens

\* At most MaxOdd arguments of a vector are outside CoreTokens.
MaxOdd == 1

\* The longest argument vector.
MaxArgs == 5

OddCount(v) == Cardinality({n \in DOMAIN v : v[n] \in OddTokens})

\* The vectors that give the same latitude and the same longitude twice.
SamePointVectors == { <<t, u, t, u>> : t \in Tokens, u \in Tokens }

\* argv[1..argc-1]: every vector of four arguments within MaxOdd, the
\* vectors that repeat a point, and, for every other count up to MaxArgs,
\* the vectors of core arguments (main does not read the arguments when
\* the count is wrong).
ArgVectors ==
    {v \in [1..4 -> Tokens] : OddCount(v) <= MaxOdd}
        \cup SamePointVectors
        \cup UNION {[1..n -> CoreTokens] : n \in (0..MaxArgs) \ {4}}

----------------------------------------------------------------------------
(* The program                                                             *)

VARIABLES
    argv,       \* the arguments after the program name
    pc,         \* where the program is
    i,          \* main: value index of the validation loop
    coor,       \* main: a.coor[0..3], as coor[1..4]
    errno,      \* errno of the C library
    dist,       \* main: the haversine distance
    out,        \* lines written to stdout
    err,        \* lines written to stderr
    status,     \* exit status once pc = "exit"
    U1, U2, L, l, l0, ss, cs, s, c2a, c2sm,   \* locals of vincenty
    ret,        \* the value vincenty returns
    iter        \* passes of the do-while body done, counted up to IterCap

io == <<out, err, status>>
locals == <<U1, U2, L, l, l0, ss, cs, s, c2a, c2sm>>
vars == <<argv, pc, i, coor, errno, dist, io, locals, ret, iter>>

Init ==
    /\ argv \in ArgVectors
    /\ pc = "argc"
    /\ i = 0
    /\ coor = <<Zero, Zero, Zero, Zero>>
    /\ errno = 0
    /\ dist = Unset
    /\ out = <<>>
    /\ err = <<>>
    /\ status = 0
    /\ U1 = Unset /\ U2 = Unset /\ L = Unset /\ l = Unset /\ l0 = Unset
    /\ ss = Unset /\ cs = Unset /\ s = Unset /\ c2a = Unset /\ c2sm = Unset
    /\ ret = Unset
    /\ iter = 0

\* main, lines 101-106
MainArgc ==
    /\ pc = "argc"
    /\ IF Len(argv) + 1 # 5
       THEN /\ err' = Append(err, [text |-> Diagnostic(ERR_NUMARG), arg |-> <<>>])
            /\ status' = ERR_NUMARG
            /\ pc' = "exit"
       ELSE /\ pc' = "parse"
            /\ UNCHANGED <<err, status>>
    /\ UNCHANGED <<argv, i, coor, errno, dist, out, locals, ret, iter>>

\* main, lines 107-136: one pass of the validation loop
MainParse ==
    /\ pc = "parse"
    /\ LET r == strtod(argv[i + 1])
           en == IF r.range THEN ERANGE ELSE errno
           code == ArgCheck(r, strlen(argv[i + 1]), en, i)
       IN /\ errno' = en
          /\ IF code # 0
             THEN /\ coor' = [coor EXCEPT ![i + 1] = ToDouble(r.val)]
                  /\ err' = Append(err, [text |-> Diagnostic(code),
                                         arg |-> argv[i + 1]])
                  /\ status' = code
                  /\ pc' = "exit"
                  /\ i' = i
             ELSE /\ coor' = [coor EXCEPT
                                ![i + 1] = ToRadians(Normalise(r.val, i))]
                  /\ i' = i + 1
                  /\ pc' = IF i + 1 < 4 THEN "parse" ELSE "haversine"
                  /\ UNCHANGED <<err, status>>
    /\ UNCHANGED <<argv, dist, out, locals, ret, iter>>

\* The haversine step without its printf.
MainHaversineSilent ==
    /\ pc = "haversine"
    /\ dist' = Haversine(coor).dist
    /\ pc' = "vincenty"
    /\ UNCHANGED <<argv, i, coor, errno, io, locals, ret, iter>>

\* main, lines 138-155: the haversine distance and the first line
MainHaversine ==
    /\ pc = "haversine"
    /\ dist' = Haversine(coor).dist
    /\ out' = Append(out, Printf(dist', 2))
    /\ pc' = "vincenty"
    /\ UNCHANGED <<argv, i, coor, errno, err, status, locals, ret, iter>>

\* vincenty, lines 59-67: the fast path, or the set-up of the iteration
VincentyEnter ==
    /\ pc = "vincenty"
    /\ IF SamePoint(coor)
       THEN /\ ret' = Zero
            /\ pc' = "print"
            /\ UNCHANGED locals
       ELSE /\ U1' = ReducedLat(coor[1])
            /\ U2' = ReducedLat(coor[3])
            /\ L' = Sub(coor[4], coor[2])
            /\ l' = L'
            /\ pc' = "loop"
            /\ UNCHANGED <<l0, ss, cs, s, c2a, c2sm, ret>>
    /\ UNCHANGED <<argv, i, coor, errno, dist, io, iter>>

\* vincenty, lines 68-85: one pass of the do-while body and its exit test
VincentyLoop ==
    /\ pc = "loop"
    /\ \E v \in {VincentyBody(U1, U2, L, l)} :
          /\ l0' = v.l0
          /\ l' = v.l
          /\ ss' = v.ss
          /\ cs' = v.cs
          /\ s' = v.s
          /\ c2a' = v.c2a
          /\ c2sm' = v.c2sm
          /\ pc' = IF Converged(v.l, v.l0) THEN "return" ELSE "loop"
    /\ iter' = IF iter < IterCap THEN iter + 1 ELSE iter
    /\ UNCHANGED <<argv, i, coor, errno, dist, io, U1, U2, L, ret>>

\* vincenty, lines 86-95
VincentyReturn ==
    /\ pc = "return"
    /\ ret' = VincentyResult([ss |-> ss, cs |-> cs, s |-> s, c2a |-> c2a,
                              c2sm |-> c2sm])
    /\ pc' = "print"
    /\ UNCHANGED <<argv, i, coor, errno, dist, io, locals, iter>>

\* main, lines 156-158: the second line and the return
MainPrint ==
    /\ pc = "print"
    /\ out' = Append(out, Printf(ret, 3))
    /\ status' = 0
    /\ pc' = "exit"
    /\ UNCHANGED <<argv, i, coor, errno, dist, err, locals, ret, iter>>

Next ==
    \/ MainArgc
    \/ MainParse
    \/ MainHaversine
    \/ VincentyEnter
    \/ VincentyLoop
    \/ VincentyReturn
    \/ MainPrint

Spec == Init /\ [][Next]_vars

----------------------------------------------------------------------------
(* Properties                                                              *)

\* The first line is on stdout: the haversine expression has been computed.
Computed == Len(out) >= 1

\* All four coordinates are finite numbers.
AllFinite == \A k \in 1..4 : IsFinite(coor[k])

\* The two points differ.
Distinct == coor[1] # coor[3] \/ coor[2] # coor[4]

\* The code the order of checks of the specification gives argument k of
\* a vector: 2 not fully consumed, 3 out of the range of a double, 4 a
\* latitude outside [-90, 90], 5 a longitude outside [-180, 180], 0 none.
FailureOf(tok, k) ==
    LET r == strtod(tok)
    IN IF r.len # Len(tok) THEN 2
       ELSE IF r.range THEN 3
       ELSE IF k \in {1, 3} /\ (LessThan(r.val, -90) \/ GreaterThan(r.val, 90))
       THEN 4
       ELSE IF k \in {2, 4}
               /\ (LessThan(r.val, -180) \/ GreaterThan(r.val, 180))
       THEN 5
       ELSE 0

\* The first argument of a vector of four that fails a check, 0 if none.
FirstFailing(v) ==
    IF \A k \in 1..4 : FailureOf(v[k], k) = 0 THEN 0
    ELSE CHOOSE k \in 1..4 :
            /\ FailureOf(v[k], k) # 0
            /\ \A j \in 1..(k - 1) : FailureOf(v[j], j) = 0

ExpectedExit(v) ==
    IF Len(v) # 4 THEN 1
    ELSE IF FirstFailing(v) = 0 THEN 0
    ELSE FailureOf(v[FirstFailing(v)], FirstFailing(v))

\* C1: the exit code is that of the first failed check: 1 for a wrong
\* argument count, else the code of the first check (2, 3, 4, 5 in that
\* order) that the first failing argument fails; the program exits at that
\* argument, the later ones are never parsed, and an argument is passed
\* only when it fails no check.  Exit code 0 needs four passing arguments.
C1_ExitCodeByFirstFailedCheck ==
    /\ pc = "exit" => status = ExpectedExit(argv)
    /\ pc = "exit" /\ status \in 2..5 =>
          /\ i + 1 = FirstFailing(argv)
          /\ \A k \in (i + 2)..4 : coor[k] = Zero
    /\ pc \notin {"argc", "exit"} =>
          /\ Len(argv) = 4
          /\ \A k \in 1..i : FailureOf(argv[k], k) = 0

\* The second argument is both not fully consumed and out of range, and
\* the program has exited on it with code 2.
C1_Witness ==
    /\ pc = "exit" /\ status = 2 /\ i = 1
    /\ argv[2] = <<"1", "e", "4", "0", "0", "x">>

\* C2: when the haversine computation or vincenty is reached, every
\* coordinate is a finite number, the radians of a finite degree value
\* within the range of its position.
C2_HandOffInvariant ==
    pc \in {"haversine", "vincenty", "loop", "return", "print"} =>
        \A k \in 1..4 :
            LET d == strtod(argv[k]).val
                lim == IF k \in {1, 3} THEN 90 ELSE 180
            IN /\ IsFinite(coor[k])
               /\ d.k = "fin"
               /\ ~LessThan(d, -lim)
               /\ ~GreaterThan(d, lim)

\* C3: with the same valid point as both endpoints the haversine value
\* is 0 and the divisor of its radius is a non-zero number, vincenty
\* returns 0 without a pass of its loop, and both lines print zero.
C3_Identity ==
    (Computed /\ AllFinite /\ ~Distinct) =>
        /\ dist = Zero
        /\ out[1] = Printf(Zero, 2)
        /\ pc \notin {"loop", "return"}
        /\ iter = 0
        /\ pc \in {"print", "exit"} => ret = Zero
        /\ pc = "exit" => status = 0 /\ out[2] = Printf(Zero, 3)
        /\ pc = "vincenty" =>
              /\ IsFinite(Haversine(coor).divisor)
              /\ ~IsZero(Haversine(coor).divisor)

\* The same point, off the equator and written with longitude 180 once and
\* -180 once, has been through both algorithms.
C3_Witness ==
    /\ pc = "exit" /\ status = 0
    /\ AllFinite /\ ~Distinct
    /\ argv[2] # argv[4]
    /\ coor[1] # Zero

\* Two distinct valid points on the equator.
Equatorial ==
    /\ Computed /\ AllFinite /\ Distinct
    /\ coor[1] = Zero /\ coor[3] = Zero

\* C4: for two distinct points on the equator every pass of the loop
\* leaves c2sm and lambda defined numbers, and the loop is left.
C4_EquatorTolerated ==
    (Equatorial /\ iter >= 1) =>
        /\ IsFinite(c2sm)
        /\ IsFinite(l)
        /\ iter < IterCap

\* The angular separation is below 179.9 degrees: its cosine (spherical
\* law of cosines) is above cos(179.9 degrees).
NotAntipodal ==
    \E s1 \in {Sin(coor[1])}, s3 \in {Sin(coor[3])},
       c1 \in {Cos(coor[1])}, c3 \in {Cos(coor[3])},
       cl \in {Cos(Sub(coor[4], coor[2]))},
       lim \in {Cos(Mul(Ratio(1799, 10), DEG2RAD))} :
        Lt(lim, Add(Mul(s1, s3), Mul(Mul(c1, c3), cl)))

\* C5: for distinct valid points less than 179.9 degrees apart the loop
\* of vincenty makes at most 20 passes.
C5_ConvergesWithin20 ==
    (pc = "loop" /\ iter >= 20) => ~(AllFinite /\ Distinct /\ NotAntipodal)

\* x is in [-180, -180 + 1e-12].
NearMinus180(x) ==
    /\ x.k = "fin" /\ x.s = -1
    /\ \/ x.hi = 1800000 /\ x.lo = 0
       \/ x.hi = 1799999 /\ x.lo >= 999999990

Boundary(k) ==
    IF k \in {1, 3} THEN { <<"9", "0">>, <<"-", "9", "0">> }
    ELSE { <<"1", "8", "0">>, <<"-", "1", "8", "0">> }

\* The coordinate stored for every argument that passed is the radians of
\* its degree value, except that a longitude for which Replaced holds is
\* stored as the radians of 180; and no boundary value is rejected.
NormalisedWhere(Replaced(_)) ==
    /\ \A k \in 1..i :
          LET d == strtod(argv[k]).val
          IN coor[k] = ToRadians(IF k \in {2, 4} /\ Replaced(d)
                                 THEN DecOfInt(180) ELSE d)
    /\ \A k \in 1..i :
          (k \in {2, 4} /\ argv[k] = <<"-", "1", "8", "0">>) =>
              coor[k] = ToRadians(strtod(<<"1", "8", "0">>).val)
    /\ (pc = "exit" /\ status \in 2..5) => argv[i + 1] \notin Boundary(i + 1)

IsMinus180(x) == x = DecOfInt(-180)

\* C6 as amended: the boundary values are accepted, and a longitude within
\* EPSILON of -180 (from -180 up to -180 + 1e-12), not only -180 itself,
\* is replaced by 180 before the conversion to radians; latitudes and all
\* other longitudes are stored unaltered.
C6_NormalisedWithinEpsilon == NormalisedWhere(NearMinus180)

\* C6 as stated: only a longitude of exactly -180 is replaced.
C6_NormalisedOnlyExact == NormalisedWhere(IsMinus180)

\* All four arguments passed, with -180 as first longitude and a second
\* longitude just above -180; both are stored as the radians of 180.
C6_Witness ==
    /\ Len(argv) = 4 /\ i = 4
    /\ argv[2] = <<"-", "1", "8", "0">>
    /\ strtod(argv[4]).val # DecOfInt(-180)
    /\ NearMinus180(strtod(argv[4]).val)
    /\ coor[2] = ToRadians(DecOfInt(180))
    /\ coor[4] = coor[2]

\* tok is a decimal literal and nothing else: an optional sign, digits
\* with an optional point and at least one digit, an optional exponent.
DecimalLiteral(tok) ==
    LET p == IF Len(tok) >= 1 /\ tok[1] \in {"+", "-"} THEN 2 ELSE 1
        j1 == SpanEnd(tok, p, DigitSet)
        j2 == IF j1 <= Len(tok) /\ tok[j1] = "."
              THEN SpanEnd(tok, j1 + 1, DigitSet) ELSE j1
        nDigits == (j1 - p) + (IF j2 > j1 THEN j2 - j1 - 1 ELSE 0)
        e1 == IF j2 + 1 <= Len(tok) /\ tok[j2 + 1] \in {"+", "-"}
              THEN j2 + 2 ELSE j2 + 1
    IN /\ nDigits >= 1
       /\ \/ j2 = Len(tok) + 1
          \/ /\ tok[j2] = "e"
             /\ e1 <= Len(tok)
             /\ SpanEnd(tok, e1, DigitSet) = Len(tok) + 1

\* C7: every argument that passed the checks is a decimal literal, and an
\* argument that is none is rejected with code 2, not by a later check.
C7_OnlyDecimalLiteralsPass ==
    /\ pc \notin {"argc", "exit"} => \A k \in 1..i : DecimalLiteral(argv[k])
    /\ (pc = "exit" /\ status \in 3..5) => DecimalLiteral(argv[i + 1])

\* The coordinate pair with its endpoints exchanged.
Swap(a) == <<a[3], a[4], a[1], a[2]>>

\* x and y are finite and differ by at most 2^-(Precision - 2) of x: a few
\* units in the last place of the significand.
WithinRounding(x, y) ==
    /\ IsFinite(x) /\ IsFinite(y)
    /\ Le(Fabs(Sub(x, y)), Mul(Fabs(x), Ratio(1, 2 ^ (Precision - 2))))

C9_OutputOrder ==
    /\ pc \in {"argc", "parse", "haversine"} => out = <<>> /\ err = <<>>
    /\ pc \in {"vincenty", "loop", "return", "print"} =>
          out = <<Printf(dist, 2)>> /\ err = <<>>
    /\ (pc = "exit" /\ status = 0) =>
          out = <<Printf(dist, 2), Printf(ret, 3)>> /\ err = <<>>
    /\ (pc = "exit" /\ status # 0) =>
          /\ out = <<>>
          /\ Len(err) = 1
          /\ status \in 2..5 => err[1].arg = argv[i + 1]

\* A success whose two lines differ, after at least one pass of the loop.
C9_Witness ==
    /\ pc = "exit" /\ status = 0
    /\ iter >= 1
    /\ Len(out) = 2 /\ out[1].int # out[2].int

\* C10: the loop starts from lambda = L = lon2 - lon1; vincenty returns
\* from its iteration only after a pass; a pass keeps the previous lambda
\* in l0 and leaves the loop if and only if equal(l, l0), with no other
\* way out, no output and no exit, however many passes were made; the
\* returned value is computed from the quantities of the last pass.
C10_LoopStructure ==
    [][ /\ (pc = "vincenty" /\ pc' = "loop") =>
              L' = Sub(coor[4], coor[2]) /\ l' = L' /\ iter' = 0
        /\ pc' = "return" => pc = "loop"
        /\ pc = "loop" =>
              /\ l0' = l
              /\ \A v \in {VincentyBody(U1, U2, L, l)} :
                    <<l', ss', cs', s', c2a', c2sm'>>
                        = <<v.l, v.ss, v.cs, v.s, v.c2a, v.c2sm>>
              /\ pc' = "return" <=> Le(Fabs(Sub(l', l0')), EPSILON)
              /\ pc' \in {"loop", "return"}
              /\ UNCHANGED <<out, err, status, U1, U2, L>>
        /\ pc = "return" =>
              /\ pc' = "print"
              /\ ret' = VincentyResult([ss |-> ss, cs |-> cs, s |-> s,
                                        c2a |-> c2a, c2sm |-> c2sm])
      ]_vars

\* The loop has been left after more than one pass.
C10_Witness == pc = "return" /\ iter >= 2
====
